---- MODULE Spec2Model ----
(***************************************************************************)
(* DTG Shield Service: the risk engine (risk_engine.py), the gateway       *)
(* middleware (main.py) and their use of the shared Redis store.           *)
(*                                                                         *)
(* Every `await` of the source is one step of the task that runs it, so    *)
(* tasks interleave exactly where the asyncio event loop can switch.  A    *)
(* store call may fail (the store is unreachable): the step then raises    *)
(* and the exception travels to the nearest enclosing try/except of the    *)
(* source.  Keys that carry a TTL may expire at any moment.  The policy    *)
(* documents and the rate-limit counters are written by other components   *)
(* at any time, so each read of one yields any value of its domain; what   *)
(* was read is kept in the reading task's locals, as in the source.        *)
(***************************************************************************)
EXTENDS Integers, Sequences, FiniteSets, TLC

\* ------------------------------------------------------------------ bounds
MaxCalls == 2          \* direct engine calls started in one behaviour
RepeatReqs == 2        \* requests received in one behaviour of the repeated-request runs
AuthReqs == 11         \* requests received in one behaviour of the authentication-failure runs
MaxFaults == 1         \* store calls that fail in one behaviour

\* ------------------------------------------------------- program constants
BLOCK_THRESHOLD  == 100     \* config.py
AUTH_FAIL_WEIGHT == 10      \* config.py
LogCap           == 50      \* ltrim(log_key, 0, 49)
ATTEST_WEIGHT    == 20      \* increment_risk(ip, 20, "Missing device attestation ...")
DEFAULT_MAX_BIO  == 10      \* sec_settings.get("max_biometric_attempts_per_ip", 10)
RATE_LIMIT_CAP   == 50      \* if count and count >= 50
SUBNET_ALERT     == 3       \* if count >= 3: # Threshold

Procs   == {1, 2}                 \* concurrent tasks
\* client identities: four IPv4 addresses, three in one /24, and one IPv6 address
IPs     == {"1.2.3.4", "10.0.5.7", "10.0.5.8", "10.0.5.9", "::1"}
Amounts == {40, 60}               \* amounts of direct IncrementRisk calls

\* Request paths, as sequences of pieces of the path string.
AdminUsers == <<"/api/v1/", "admin", "/", "users">>
AdminBare  == <<"/api/v1/", "admin">>
AuthLogin  == <<"/api/v1/", "auth", "/", "login">>
Paths      == {AdminUsers, AdminBare, AuthLogin}
ADMIN_PATHS == {<<"/api/v1/", "admin", "/">>}
AUTH_PREFIX == <<"/api/v1/", "auth">>

BackendStatus == {200, 401, 429}

\* The documents other components keep in the store, as a read returns them:
\* absent (None), not JSON, or a JSON object.
NoGeoSettings   == [k : {"absent"}, geo_blocking_enabled : {"none"}]
GeoSettingsDocs == [k : {"absent", "bad"}, geo_blocking_enabled : {"none"}]
                     \cup [k : {"json"}, geo_blocking_enabled : {"true", "false"}]
BlockedDocs == [k : {"absent", "bad"}, list : {<<>>}] \cup [k : {"json"}, list : {<<>>, <<"ru">>}]
SecDocs == [k : {"absent", "bad"}, att : {"false"}, vpn : {"false"}, maxbio : {"none"}]
             \cup [k : {"json"}, att : {"true", "false"}, vpn : {"true", "false"},
                   maxbio : {"none", "3", "bad"}]
GateSecDocs == {d \in SecDocs : d.maxbio # "3"}
NoSec == [k |-> "absent", att |-> "false", vpn |-> "false", maxbio |-> "none"]
BioCounts  == {0, 3, 10}        \* zcard(rl:biometric:ip:{ip})
GateBioCounts == {0, 10}
RateCounts == {0, 50, 100}      \* zcard(rl:login:ip:{ip}), zcard(rl:enrollment:ip:{ip})

\* Answers of the reputation service (ip-api.com): the call raised, or a JSON body.
GeoAnswers == [k : {"exc"}, status : {"fail"}, countryCode : {"none"}]
                \cup [k : {"json"}, status : {"fail"}, countryCode : {"none"}]
                \cup [k : {"json"}, status : {"success"}, countryCode : {"RU", "GE"}]
VpnAnswers == [k : {"exc"}, status : {"fail"}, proxy : {FALSE}, hosting : {FALSE}]
                \cup [k : {"json"}, status : {"fail"}, proxy : {FALSE}, hosting : {FALSE}]
                \cup [k : {"json"}, status : {"success"}, proxy : BOOLEAN, hosting : BOOLEAN]
GateVpnAnswers == {a \in VpnAnswers : ~a.proxy}

VARIABLES
  risk,        \* shield:risk:{ip}   [e: key exists, v: value, t: has a TTL]
  logs,        \* shield:logs:{ip}   newest first
  block,       \* shield:block:{ip}  [e: key exists, score: the {current} of the reason]
  blockCount,  \* shield:block_count
  geoCache,    \* geo:ip:{ip}        [e: key exists, country_code, ip]
  vpnCache,    \* shield:vpn:{ip}    [e: key exists, is_vpn, reason]
  proc,        \* the frame of each task: position and locals
  calls,       \* top-level operations started so far
  faults,      \* store calls that failed so far
  winSum,      \* history: amounts of the IncrementRisk calls begun in the score's window
  winDirty,    \* history: a call straddled the window's start, or failed in it
  fails,       \* history: requests of the identity that ended in an authentication failure
  crossed,     \* history: a completed IncrementRisk reached the threshold, its block not yet expired
  lastGeo,     \* history: the result the live geo cache entry was written with
  lastVpn,     \* history: the result the live VPN cache entry was written with
  running,     \* AutoManager.running
  sched        \* AutoManager: where its caller is, and the _pruning_loop tasks it created

vars == <<risk, logs, block, blockCount, geoCache, vpnCache, proc, calls, faults,
          winSum, winDirty, fails, crossed, lastGeo, lastVpn, running, sched>>

Manager == <<running, sched>>
Store == <<risk, logs, block, blockCount, geoCache, vpnCache, lastGeo, lastVpn>>

NoRisk  == [e |-> FALSE, v |-> 0, t |-> FALSE]
NoBlock == [e |-> FALSE, score |-> 0]
NoGeo   == [e |-> FALSE, country_code |-> "none", ip |-> "none"]
NoVpn   == [e |-> FALSE, is_vpn |-> FALSE, reason |-> <<>>]
NoRes   == [set |-> FALSE, v |-> <<>>]

\* AutoManager.__init__: self.running = False; no loop task yet
NoLoop == [live |-> FALSE, stopped |-> FALSE, failed |-> FALSE]
NotStarted ==
  /\ running = FALSE
  /\ sched = [caller |-> "idle", loop |-> [p \in Procs |-> NoLoop]]

\* A task at rest; the fields are the locals of the handlers and, last, history.
Idle == [op |-> "idle", pc |-> "idle", ip |-> "1.2.3.4",
         path |-> <<>>,                                      \* the request
         amt |-> 0, cur |-> 0, ret |-> "top",                \* increment_risk
         already |-> FALSE,                                  \* block_ip
         sec |-> NoSec, bl |-> <<>>, cc |-> "none",          \* is_ip_blocked
         vres |-> <<FALSE, <<>>>>, rv |-> <<>>,              \* lookups and their result
         res |-> "none",                                     \* is_ip_blocked's answer
         out |-> "none", code |-> 0, hdrs |-> {},            \* the response
         inc |-> FALSE,      \* inside increment_risk
         fwd |-> FALSE,      \* history: the backend was contacted
         touched |-> FALSE,  \* history: this task changed score, log, BlockRecord or counter
         vpnw |-> FALSE,     \* history: this task wrote the VPN cache
         saw |-> FALSE,      \* history: `crossed` held when the request came in
         l1 |-> "none",      \* history: how the layer-1 read went
         ev |-> {},          \* history: the layers this evaluation entered
         fl |-> {},          \* history: where something failed in layer 2 or 3
         pol |-> NoSec,      \* history: the security policy this evaluation read
         bio |-> 0,          \* the identity's biometric attempt count during the evaluation
         notok |-> FALSE,    \* history: attestation was required and the token missing
         scored |-> <<>>,    \* history: the increments this evaluation scored, <<where, amount>>
         reread |-> "none",  \* history: what 3a's re-read of the BlockRecord found
         expd |-> FALSE,     \* history: the BlockRecord expired after this call's last setex
         ext |-> 0, seen |-> NoRes,                          \* history of a cached lookup
         lk |-> "none",      \* history: how the external call of a direct lookup went
         cw |-> FALSE,       \* history: this direct lookup wrote its cache entry
         c0 |-> 0, e0 |-> FALSE, ovl |-> FALSE,              \* history of a Block call
         keys |-> {}, key |-> "none", reason |-> NoBlock,    \* get_all_blocked
         blocked |-> <<>>,                                   \* its result, by parsed identity
         alerts |-> <<>>,    \* the subnets _analyze_and_prune printed an alert for
         snap |-> {}]        \* history: the identities blocked when the keys were listed

Rest == {"idle", "done", "raised"}

Min(a, b) == IF a < b THEN a ELSE b

\* str.startswith
StartsWith(s, pre) == Len(s) >= Len(pre) /\ SubSeq(s, 1, Len(pre)) = pre

\* ----------------------------------------------------------- store calls
\* INCRBY: the value the store holds after adding amt to a key holding `stored`.
IncrbySet(stored, amt) == amt
IncrbyResult(stored, amt) == stored + amt

\* redis.get / value of an absent key read as a number
RiskRead(ip) == IF risk[ip].e THEN risk[ip].v ELSE 0

\* LTRIM key 0 49
Ltrim(s) == SubSeq(s, 1, Min(Len(s), LogCap))

\* `if current >= self.block_threshold`
ThresholdStrict(current) == current > BLOCK_THRESHOLD
ThresholdReached(current) == current >= BLOCK_THRESHOLD

\* `if not already_blocked`: whether block_ip bumps the counter
BumpNever(already) == FALSE
BumpAlways(already) == TRUE
BumpsCounter(already) == ~already

InIncrement(q, ip) == proc[q].inc /\ proc[q].ip = ip /\ proc[q].pc \notin Rest
InBlock(q) == proc[q].pc \in {"B1", "B2", "B3", "B4"}

\* ------------------------------------------------ returns and exceptions
\* A direct call returned: what it was, whom it served and what it gave back.
Returned(f) == [Idle EXCEPT !.op = f.op, !.pc = "done", !.ip = f.ip, !.rv = f.rv,
                            !.ext = f.ext, !.seen = f.seen, !.lk = f.lk, !.cw = f.cw]

\* A direct call raised.
Raised(f) == [Idle EXCEPT !.op = f.op, !.pc = "raised", !.ip = f.ip]

\* The middleware answered: the response and the history of the request.
Finish(f, out, code, hdrs) ==
  [Idle EXCEPT !.op = f.op, !.pc = "done", !.ip = f.ip, !.path = f.path,
               !.res = f.res, !.out = out, !.code = code, !.hdrs = hdrs, !.fwd = f.fwd,
               !.touched = f.touched, !.vpnw = f.vpnw, !.saw = f.saw, !.l1 = f.l1,
               !.ev = f.ev, !.fl = f.fl, !.pol = f.pol, !.bio = f.bio, !.notok = f.notok,
               !.scored = f.scored, !.reread = f.reread]

\* is_ip_blocked returns (True, reason): JSONResponse(403, ..., {"X-Shield-Blocked": "true"})
DenyAfterForward(f, layer) ==
  Finish([f EXCEPT !.res = layer, !.fwd = TRUE], "denied", 403, {"X-Shield-Blocked"})
Deny(f, layer) == Finish([f EXCEPT !.res = layer], "denied", 403, {"X-Shield-Blocked"})

\* An exception leaves shield_middleware: the caller gets no response of the backend.
Error500(f) == Finish(f, "err500", 500, {})

\* is_ip_blocked returns (False, ""): the middleware goes on to call_next.
Allow(f) == [f EXCEPT !.pc = "M1", !.res = "allow", !.sec = NoSec, !.bl = <<>>, !.cc = "none",
                      !.vres = Idle.vres, !.amt = 0, !.cur = 0, !.already = FALSE,
                      !.inc = FALSE, !.ret = "top", !.expd = FALSE,
                      !.c0 = 0, !.e0 = FALSE, !.ovl = FALSE]

\* The locals of increment_risk / block_ip are gone once it has returned or raised.
Unwind(f) == [f EXCEPT !.amt = 0, !.cur = 0, !.already = FALSE, !.inc = FALSE, !.ret = "top",
                       !.expd = FALSE, !.c0 = 0, !.e0 = FALSE, !.ovl = FALSE]

ToLayer3(f) == [f EXCEPT !.pc = "L3", !.bl = <<>>, !.cc = "none"]
ToLayer4(f) == [Unwind(f) EXCEPT !.pc = "L4a", !.sec = NoSec, !.vres = Idle.vres]

\* The evaluation enters a layer.
Enter(f, layer) == [f EXCEPT !.ev = @ \cup {layer}]

\* `except Exception as e: print("Geo-sync error")`: on to layer 3
Failed2Allows(f) == Allow([f EXCEPT !.fl = @ \cup {"L2"}])
Failed2(f) == ToLayer3([f EXCEPT !.fl = @ \cup {"L2"}])

\* `except Exception as e: print("Security-policy-sync error")`: on to layer 4
Failed3(f) == ToLayer4([f EXCEPT !.fl = @ \cup {"L3"}])

\* await self.increment_risk(ip, amount, reason), called at `ret`
CallIncrement(f, amount, ret) == [f EXCEPT !.pc = "I1", !.amt = amount, !.ret = ret, !.inc = TRUE]

\* str.upper on the country codes in use
Upper(c) == CASE c = "ru" -> "RU" [] c = "ge" -> "GE" [] OTHER -> c

\* country_code.upper() in [c.upper() for c in blocked_countries]
GeoMatchesExact(cc, bl) == cc # "none" /\ \E i \in 1..Len(bl) : bl[i] = cc
GeoMatches(cc, bl) == cc # "none" /\ \E i \in 1..Len(bl) : Upper(bl[i]) = Upper(cc)

\* int(sec_settings.get("max_biometric_attempts_per_ip", 10)), for a value int() accepts
MaxBio(sec) == IF sec.maxbio = "none" THEN DEFAULT_MAX_BIO ELSE 3

\* 3b is over without a deny: 3c starts with int(...), which raises on a bad value
After3b(f) == IF f.sec.maxbio = "bad" THEN Failed3(f) ELSE [f EXCEPT !.pc = "L3c", !.vres = Idle.vres]

\* 3a is over without a deny: `if sec_settings.get("block_vpn_and_proxy") == "true"`
After3a(f) == IF f.sec.vpn = "true" THEN [f EXCEPT !.pc = "V1"] ELSE After3b(f)

\* _get_country_code returns cc, to a direct caller or into layer 2
GeoDenyFallsThrough(f, cc) ==
  IF f.op = "geo" THEN Returned([f EXCEPT !.rv = <<cc>>])
  ELSE IF GeoMatches(cc, f.bl) THEN ToLayer3([f EXCEPT !.res = "L2"]) ELSE ToLayer3(f)
GeoReturn(f, cc) ==
  IF f.op = "geo" THEN Returned([f EXCEPT !.rv = <<cc>>])
  ELSE IF GeoMatches(cc, f.bl) THEN Deny(f, "L2") ELSE ToLayer3(f)

\* _check_vpn_cached returns r = (is_vpn, reason), to a direct caller or into 3b
VpnReturn(f, r) ==
  IF f.op = "vpn" THEN Returned([f EXCEPT !.rv = r])
  ELSE IF r[1] THEN Deny(f, "L3b") ELSE After3b(f)

\* increment_risk returned to the place that called it
AfterIncrementDenies(f) ==
  CASE f.ret = "top" -> Returned(f)
    [] f.ret = "mw"  -> Finish(f, "fwd", f.code, {"X-Shield-Latency"})
    [] f.ret = "L3a" -> Deny(f, "L3a")
    [] f.ret = "L3c" -> Deny(f, "L3c")
    [] f.ret = "L4"  -> Deny(f, "L4")
AfterIncrement(f) ==
  CASE f.ret = "top" -> Returned(f)
    [] f.ret = "mw"  -> Finish(f, "fwd", f.code, {"X-Shield-Latency"})
    [] f.ret = "L3a" -> [Unwind(f) EXCEPT !.pc = "L3r"]
    [] f.ret = "L3c" -> Deny(f, "L3c")
    [] f.ret = "L4"  -> Deny(f, "L4")

IncPcs == {"I1", "I2", "I3", "I4", "B1", "B2", "B3", "B4"}

\* A store call raised at f.pc: where the exception lands.
ScoringError(f) ==
  IF f.ret = "top" THEN Raised(f)
  ELSE IF f.ret \in {"mw", "L4"} THEN Error500(f)      \* no try around the call
  ELSE Failed3(f)                                       \* layer 3's except

DirectReadError(f) == Error500([f EXCEPT !.l1 = "failed"])   \* layer 1 has no try

Caught(f) ==
  CASE f.pc \in IncPcs -> ScoringError(f)
    [] f.pc = "L1" -> DirectReadError(f)
    [] f.pc = "L2a" -> Failed2(Enter(f, "L2"))                  \* layer 2's except
    [] f.pc = "L2b" -> Failed2(f)
    [] f.pc = "G1" -> IF f.op = "geo" THEN Raised(f) ELSE Failed2(f)
    [] f.pc = "G3" -> GeoReturn(f, "none")                      \* the lookup's own except
    [] f.pc = "L3" -> Failed3(Enter(f, "L3"))                   \* layer 3's except
    [] f.pc \in {"L3r", "L3c"} -> Failed3(f)
    [] f.pc = "V1" -> IF f.op = "vpn" THEN Raised(f) ELSE Failed3(f)
    [] f.pc = "V3" -> VpnReturn(f, <<FALSE, <<>>>>)             \* the lookup's own except
    [] f.pc = "L4a" -> Error500(Enter(f, "L4"))                 \* layer 4 has no try
    [] f.pc = "L4b" -> Error500(f)
    [] f.pc \in {"S1", "S2", "S3"} -> Raised(f)                \* out of _analyze_and_prune

\* ------------------------------------------------------- history keeping
History == <<winSum, winDirty, fails, crossed, faults, Manager>>

\* How a store call may go: it answers, or (while faults are left) it raises.
StoreOutcomes == IF faults < MaxFaults THEN {TRUE, FALSE} ELSE {TRUE}

\* Entering block_ip marks every other Block call in progress as overlapped.
Overlap(pr, p) ==
  [q \in Procs |-> IF q # p /\ InBlock(q) THEN [pr[q] EXCEPT !.ovl = TRUE] ELSE pr[q]]

EnterBlock(f, p) ==
  [f EXCEPT !.pc = "B1", !.c0 = blockCount, !.e0 = block[f.ip].e,
            !.ovl = \E q \in Procs \ {p} : InBlock(q)]

\* Task p goes on as frame f (not by a return of increment_risk, not by an exception).
Goes(p, f) ==
  /\ proc' = IF f.pc = "B1" THEN Overlap([proc EXCEPT ![p] = EnterBlock(f, p)], p)
             ELSE [proc EXCEPT ![p] = f]
  /\ winSum' = IF f.inc /\ ~proc[p].inc THEN [winSum EXCEPT ![f.ip] = @ + f.amt] ELSE winSum
  /\ UNCHANGED <<winDirty, fails, crossed, faults, Manager>>

\* The store call task p was making raised.
Fail(p) ==
  /\ proc' = [proc EXCEPT ![p] = Caught(@)]
  /\ winDirty' = IF proc[p].inc THEN [winDirty EXCEPT ![proc[p].ip] = TRUE] ELSE winDirty
  /\ faults' = faults + 1
  /\ UNCHANGED <<winSum, fails, crossed, Manager>>

\* increment_risk (or a direct block_ip) of task p returns.
Completes(p) ==
  /\ proc' = [proc EXCEPT ![p] = IF @.inc THEN AfterIncrement(@) ELSE Returned(@)]
  /\ crossed' = [crossed EXCEPT ![proc[p].ip] =
                   @ \/ (proc[p].inc /\ proc[p].cur >= BLOCK_THRESHOLD /\ ~proc[p].expd)]
  /\ fails' = IF proc[p].inc /\ proc[p].ret = "mw" /\ proc[p].code = 401
               THEN [fails EXCEPT ![proc[p].ip] = @ + 1] ELSE fails
  /\ UNCHANGED <<winSum, winDirty, faults, Manager>>

\* ------------------------------------------------- increment_risk, block_ip
StartIncrement(p, S) ==
  /\ proc[p].pc \in Rest
  /\ calls < MaxCalls
  /\ \E ip \in S, a \in Amounts : Goes(p, CallIncrement([Idle EXCEPT !.op = "inc", !.ip = ip], a, "top"))
  /\ calls' = calls + 1
  /\ UNCHANGED <<risk, logs, block, blockCount, geoCache, vpnCache, lastGeo, lastVpn>>

StartBlock(p, S) ==
  /\ proc[p].pc \in Rest
  /\ calls < MaxCalls
  /\ \E ip \in S : Goes(p, [Idle EXCEPT !.op = "blk", !.pc = "B1", !.ip = ip, !.cur = BLOCK_THRESHOLD])
  /\ calls' = calls + 1
  /\ UNCHANGED <<risk, logs, block, blockCount, geoCache, vpnCache, lastGeo, lastVpn>>

\* current = await self.redis.incrby(key, amount)
IncrBy(p) ==
  /\ proc[p].pc = "I1"
  /\ \E ok \in StoreOutcomes :
       IF ok
       THEN LET ip == proc[p].ip
                nv == IncrbyResult(RiskRead(ip), proc[p].amt)
            IN /\ risk' = [risk EXCEPT ![ip] = [e |-> TRUE, v |-> nv, t |-> risk[ip].t]]
               /\ Goes(p, [proc[p] EXCEPT !.pc = "I2", !.cur = nv, !.touched = TRUE,
                                          !.scored = IF proc[p].ret \in {"L3a", "L3c", "L4"}
                                                     THEN Append(@, <<proc[p].ret, proc[p].amt>>)
                                                     ELSE @])
       ELSE Fail(p) /\ UNCHANGED risk
  /\ UNCHANGED <<logs, block, blockCount, geoCache, vpnCache, calls, lastGeo, lastVpn>>

\* await self.redis.expire(key, 3600)
Expire(p) ==
  /\ proc[p].pc = "I2"
  /\ \E ok \in StoreOutcomes :
       IF ok
       THEN /\ risk' = [risk EXCEPT ![proc[p].ip].t = risk[proc[p].ip].e]
            /\ Goes(p, [proc[p] EXCEPT !.pc = "I3"])
       ELSE Fail(p) /\ UNCHANGED risk
  /\ UNCHANGED <<logs, block, blockCount, geoCache, vpnCache, calls, lastGeo, lastVpn>>

\* await self.redis.lpush(log_key, json.dumps(log_entry))
LPush(p) ==
  /\ proc[p].pc = "I3"
  /\ \E ok \in StoreOutcomes :
       IF ok
       THEN LET entry == [amount |-> proc[p].amt, total_score |-> proc[p].cur]
            IN /\ logs' = [logs EXCEPT ![proc[p].ip] = <<entry>> \o @]
               /\ Goes(p, [proc[p] EXCEPT !.pc = "I4"])
       ELSE Fail(p) /\ UNCHANGED logs
  /\ UNCHANGED <<risk, block, blockCount, geoCache, vpnCache, calls, lastGeo, lastVpn>>

\* await self.redis.ltrim(log_key, 0, 49); then `if current >= self.block_threshold`
LTrim(p) ==
  /\ proc[p].pc = "I4"
  /\ \E ok \in StoreOutcomes :
       IF ok
       THEN /\ logs' = [logs EXCEPT ![proc[p].ip] = Ltrim(@)]
            /\ IF ThresholdReached(proc[p].cur)
               THEN Goes(p, [proc[p] EXCEPT !.pc = "B1"])
               ELSE Completes(p)
       ELSE Fail(p) /\ UNCHANGED logs
  /\ UNCHANGED <<risk, block, blockCount, geoCache, vpnCache, calls, lastGeo, lastVpn>>

\* already_blocked = await self.redis.exists(block_key)
BlockExists(p) ==
  /\ proc[p].pc = "B1"
  /\ \E ok \in StoreOutcomes :
       IF ok
       THEN Goes(p, [proc[p] EXCEPT !.pc = "B2", !.already = block[proc[p].ip].e])
       ELSE Fail(p)
  /\ UNCHANGED <<risk, logs, block, blockCount, geoCache, vpnCache, calls, lastGeo, lastVpn>>

\* await self.redis.setex(block_key, duration_sec, reason); `if not already_blocked`
BlockSetex(p) ==
  /\ proc[p].pc = "B2"
  /\ \E ok \in StoreOutcomes :
       IF ok
       THEN /\ block' = [block EXCEPT ![proc[p].ip] = [e |-> TRUE, score |-> proc[p].cur]]
            /\ Goes(p, [proc[p] EXCEPT !.pc = IF BumpsCounter(proc[p].already) THEN "B3" ELSE "B4",
                                       !.touched = TRUE, !.expd = FALSE])
       ELSE Fail(p) /\ UNCHANGED block
  /\ UNCHANGED <<risk, logs, blockCount, geoCache, vpnCache, calls, lastGeo, lastVpn>>

\* await self.redis.incr("shield:block_count")
BlockIncr(p) ==
  /\ proc[p].pc = "B3"
  /\ \E ok \in StoreOutcomes :
       IF ok
       THEN /\ blockCount' = blockCount + 1
            /\ Goes(p, [proc[p] EXCEPT !.pc = "B4"])
       ELSE Fail(p) /\ UNCHANGED blockCount
  /\ UNCHANGED <<risk, logs, block, geoCache, vpnCache, calls, lastGeo, lastVpn>>

\* print(...); block_ip returns, and with it increment_risk when it made the call
BlockReturn(p) ==
  /\ proc[p].pc = "B4"
  /\ Completes(p)
  /\ UNCHANGED <<risk, logs, block, blockCount, geoCache, vpnCache, calls, lastGeo, lastVpn>>

\* --------------------------------------------------- cached lookups
\* json.dumps({"country_code": country_code, "ip": ip}) as stored by setex
GeoEncode(cc, ip) == [e |-> TRUE, country_code |-> cc, ip |-> ip]
\* json.loads(cached_raw).get("country_code")
GeoDecodeIp(payload) == payload.ip
GeoDecode(payload) == payload.country_code

\* is_vpn = bool(proxy or hosting); reason = f"proxy={proxy}, hosting={hosting}"
VpnResult(ans) == <<ans.proxy \/ ans.hosting, <<ans.proxy, ans.hosting>>>>
\* json.dumps({"is_vpn": is_vpn, "reason": reason}) as stored by setex
VpnEncode(r) == [e |-> TRUE, is_vpn |-> r[1], reason |-> r[2]]
\* cached.get("is_vpn", False), cached.get("reason", "")
VpnDecodeNoFlag(payload) == <<FALSE, payload.reason>>
VpnDecode(payload) == <<payload.is_vpn, payload.reason>>

\* History of a direct lookup: the live entry at its cache read, its external calls.
Saw(f, last) == IF f.op \in {"geo", "vpn"} THEN [f EXCEPT !.seen = last] ELSE f
Ext(f, how) ==
  IF f.op \in {"geo", "vpn"} THEN [f EXCEPT !.ext = @ + 1, !.lk = how]
  ELSE IF how = "failed" THEN [f EXCEPT !.fl = @ \cup {IF f.pc = "G2" THEN "geo" ELSE "vpn"}]
  ELSE f
Wrote(f) == IF f.op \in {"geo", "vpn"} THEN [f EXCEPT !.cw = TRUE] ELSE f

\* r = await _c.get(...); data = r.json(); if data.get("status") == "success"
LookupAnswered(ans) == ans.k = "json"
LookupSucceeded(ans) == ans.k = "json" /\ ans.status = "success"

Others == <<risk, logs, block, blockCount, calls>>

\* cached_raw = await self.redis.get(cache_key); if cached_raw: return ...
GeoCacheGet(p) ==
  /\ proc[p].pc = "G1"
  /\ \E ok \in StoreOutcomes :
       IF ok
       THEN LET c == geoCache[proc[p].ip]
                f == Saw(proc[p], lastGeo[proc[p].ip])
            IN IF c.e THEN Goes(p, GeoReturn(f, GeoDecode(c)))
                      ELSE Goes(p, [f EXCEPT !.pc = "G2"])
       ELSE Fail(p)
  /\ UNCHANGED <<Others, geoCache, vpnCache, lastGeo, lastVpn>>

\* r = await _c.get("http://ip-api.com/json/{ip}?fields=status,countryCode")
GeoLookup(p) ==
  /\ proc[p].pc = "G2"
  /\ \E ans \in GeoAnswers :
       IF LookupSucceeded(ans)
       THEN Goes(p, [Ext(proc[p], "ok") EXCEPT !.pc = "G3", !.cc = ans.countryCode])
       ELSE Goes(p, GeoReturn(Ext(proc[p], "failed"), "none"))
  /\ UNCHANGED <<Others, geoCache, vpnCache, lastGeo, lastVpn>>

\* await self.redis.setex(cache_key, 3600, geo_payload); return country_code
GeoCacheSet(p) ==
  /\ proc[p].pc = "G3"
  /\ \E ok \in StoreOutcomes :
       IF ok
       THEN /\ geoCache' = [geoCache EXCEPT ![proc[p].ip] = GeoEncode(proc[p].cc, proc[p].ip)]
            /\ lastGeo' = [lastGeo EXCEPT ![proc[p].ip] = [set |-> TRUE, v |-> <<proc[p].cc>>]]
            /\ Goes(p, GeoReturn(Wrote(proc[p]), proc[p].cc))
       ELSE Fail(p) /\ UNCHANGED <<geoCache, lastGeo>>
  /\ UNCHANGED <<Others, vpnCache, lastVpn>>

\* cached_raw = await self.redis.get(cache_key); if cached_raw: return ...
VpnCacheGet(p) ==
  /\ proc[p].pc = "V1"
  /\ \E ok \in StoreOutcomes :
       IF ok
       THEN LET c == vpnCache[proc[p].ip]
                f == Saw(proc[p], lastVpn[proc[p].ip])
            IN IF c.e THEN Goes(p, VpnReturn(f, VpnDecode(c)))
                      ELSE Goes(p, [f EXCEPT !.pc = "V2"])
       ELSE Fail(p)
  /\ UNCHANGED <<Others, geoCache, vpnCache, lastGeo, lastVpn>>

\* r = await _c.get("http://ip-api.com/json/{ip}?fields=status,proxy,hosting,query")
VpnLookup(p, A) ==
  /\ proc[p].pc = "V2"
  /\ \E ans \in A :
       IF LookupSucceeded(ans)
       THEN Goes(p, [Ext(proc[p], "ok") EXCEPT !.pc = "V3", !.vres = VpnResult(ans)])
       ELSE Goes(p, VpnReturn(Ext(proc[p], "failed"), <<FALSE, <<>>>>))
  /\ UNCHANGED <<Others, geoCache, vpnCache, lastGeo, lastVpn>>

\* await self.redis.setex(cache_key, 3600, payload); return is_vpn, reason
VpnCacheSet(p) ==
  /\ proc[p].pc = "V3"
  /\ \E ok \in StoreOutcomes :
       IF ok
       THEN /\ vpnCache' = [vpnCache EXCEPT ![proc[p].ip] = VpnEncode(proc[p].vres)]
            /\ lastVpn' = [lastVpn EXCEPT ![proc[p].ip] = [set |-> TRUE, v |-> proc[p].vres]]
            /\ Goes(p, VpnReturn(Wrote([proc[p] EXCEPT !.vpnw = TRUE]), proc[p].vres))
       ELSE Fail(p) /\ UNCHANGED <<vpnCache, lastVpn>>
  /\ UNCHANGED <<Others, geoCache, lastGeo>>

StartGeo(p, S) ==
  /\ proc[p].pc \in Rest
  /\ calls < MaxCalls
  /\ \E ip \in S : Goes(p, [Idle EXCEPT !.op = "geo", !.pc = "G1", !.ip = ip])
  /\ calls' = calls + 1
  /\ UNCHANGED <<risk, logs, block, blockCount, geoCache, vpnCache, lastGeo, lastVpn>>

StartVpn(p, S) ==
  /\ proc[p].pc \in Rest
  /\ calls < MaxCalls
  /\ \E ip \in S : Goes(p, [Idle EXCEPT !.op = "vpn", !.pc = "V1", !.ip = ip])
  /\ calls' = calls + 1
  /\ UNCHANGED <<risk, logs, block, blockCount, geoCache, vpnCache, lastGeo, lastVpn>>

\* ------------------------------------- get_all_blocked, _analyze_and_prune
\* ip = key.split(":")[-1], for the key "shield:block:" + identity
KeyToIp(id) == IF id = "::1" THEN "1" ELSE id

\* ip.split(".")
DotParts(ip) ==
  CASE ip = "1.2.3.4"  -> <<"1", "2", "3", "4">>
    [] ip = "10.0.5.7" -> <<"10", "0", "5", "7">>
    [] ip = "10.0.5.8" -> <<"10", "0", "5", "8">>
    [] ip = "10.0.5.9" -> <<"10", "0", "5", "9">>
    [] OTHER -> <<ip>>

\* f"{parts[0]}.{parts[1]}.{parts[2]}.0/24"
Subnet(parts) == <<parts[1], parts[2], parts[3], "0/24">>

\* d[k] = v; d.get(k, dflt)
Put(d, k, v) == [x \in DOMAIN d \cup {k} |-> IF x = k THEN v ELSE d[x]]
Get(d, k, dflt) == IF k \in DOMAIN d THEN d[k] ELSE dflt

\* for ip in blocked_ips.keys(): ... subnet_counts[subnet] = subnet_counts.get(subnet, 0) + 1
RECURSIVE CountSubnets(_, _)
CountSubnets(ips, counts) ==
  IF ips = {} THEN counts
  ELSE LET ip == CHOOSE x \in ips : TRUE
           parts == DotParts(ip)
       IN CountSubnets(ips \ {ip},
                       IF Len(parts) = 4
                       THEN Put(counts, Subnet(parts), Get(counts, Subnet(parts), 0) + 1)
                       ELSE counts)

\* `if count >= 3`; the docstring of _analyze_and_prune says ">5"
AlertsOnDocstring(count) == count > 5
AlertsOn(count) == count >= SUBNET_ALERT

\* for subnet, count in subnet_counts.items(): if count >= 3: print(alert)
RECURSIVE EmitAlerts(_, _)
EmitAlerts(counts, todo) ==
  IF todo = {} THEN <<>>
  ELSE LET sn == CHOOSE x \in todo : TRUE
       IN (IF AlertsOn(counts[sn]) THEN <<sn>> ELSE <<>>) \o EmitAlerts(counts, todo \ {sn})

Analyze(blocked) ==
  LET counts == CountSubnets(DOMAIN blocked, <<>>) IN EmitAlerts(counts, DOMAIN counts)

\* One cycle of the scheduler returned.
CycleDone(f) == [Idle EXCEPT !.op = f.op, !.pc = "done", !.blocked = f.blocked,
                             !.snap = f.snap, !.alerts = Analyze(f.blocked)]

\* _pruning_loop calls _analyze_and_prune
StartCycle(p) ==
  /\ proc[p].pc \in Rest
  /\ calls < MaxCalls
  /\ Goes(p, [Idle EXCEPT !.op = "cycle", !.pc = "S1"])
  /\ calls' = calls + 1
  /\ UNCHANGED <<risk, logs, block, blockCount, geoCache, vpnCache, lastGeo, lastVpn>>

\* keys = await self.redis.keys("shield:block:*")
BlockedKeys(p) ==
  /\ proc[p].pc = "S1"
  /\ \E ok \in StoreOutcomes :
       IF ok
       THEN LET ks == {ip \in IPs : block[ip].e}
                f == [proc[p] EXCEPT !.keys = ks, !.snap = ks]
            IN Goes(p, IF ks = {} THEN CycleDone(f) ELSE [f EXCEPT !.pc = "S2"])
       ELSE Fail(p)
  /\ UNCHANGED <<risk, logs, block, blockCount, geoCache, vpnCache, calls, lastGeo, lastVpn>>

\* for key in keys: ip = key.split(":")[-1]; reason = await self.redis.get(key)
BlockedReason(p) ==
  /\ proc[p].pc = "S2"
  /\ \E ok \in StoreOutcomes :
       IF ok
       THEN LET k == CHOOSE x \in proc[p].keys : TRUE     \* the order of KEYS is the store's
            IN Goes(p, [proc[p] EXCEPT !.pc = "S3", !.key = k, !.reason = block[k]])
       ELSE Fail(p)
  /\ UNCHANGED <<risk, logs, block, blockCount, geoCache, vpnCache, calls, lastGeo, lastVpn>>

\* ttl = await self.redis.ttl(key); blocked[ip] = {"reason": reason, "expires_in_sec": ttl}
BlockedTtl(p) ==
  /\ proc[p].pc = "S3"
  /\ \E ok \in StoreOutcomes :
       IF ok
       THEN LET k == proc[p].key
                entry == [reason |-> proc[p].reason,
                          expires_in_sec |-> IF block[k].e THEN 3600 ELSE -2]
                f == [proc[p] EXCEPT !.keys = @ \ {k}, !.key = "none", !.reason = NoBlock,
                                     !.blocked = Put(@, KeyToIp(k), entry)]
            IN Goes(p, IF f.keys = {} THEN CycleDone(f) ELSE [f EXCEPT !.pc = "S2"])
       ELSE Fail(p)
  /\ UNCHANGED <<risk, logs, block, blockCount, geoCache, vpnCache, calls, lastGeo, lastVpn>>

\* ------------------------------------- AutoManager.start, stop, _pruning_loop
LiveLoops == {p \in Procs : sched.loop[p].live}

\* A task slot asyncio.create_task can use: no loop of the manager runs in it.
FreeSlots == {p \in Procs : ~sched.loop[p].live /\ proc[p].pc \in Rest \cup {"exit"}}

LoopFrame(pc) == [Idle EXCEPT !.op = "loop", !.pc = pc]

\* start(): await self.risk_engine.connect()
StartCall ==
  /\ sched.caller = "idle"
  /\ FreeSlots # {}
  /\ sched' = [sched EXCEPT !.caller = "connecting"]
  /\ UNCHANGED <<Store, proc, calls, winSum, winDirty, fails, crossed, faults, running>>

\* connect() returned: self.running = True; asyncio.create_task(self._pruning_loop()).
\* connect() raised: start() raises before it sets the flag.
StartRun ==
  /\ sched.caller = "connecting"
  /\ \E ok \in StoreOutcomes :
       IF ok
       THEN \E p \in FreeSlots :
              /\ running' = TRUE
              /\ proc' = [proc EXCEPT ![p] = LoopFrame("new")]
              /\ sched' = [sched EXCEPT !.caller = "idle",
                                        !.loop[p] = [NoLoop EXCEPT !.live = TRUE]]
              /\ UNCHANGED faults
       ELSE /\ sched' = [sched EXCEPT !.caller = "idle"]
            /\ faults' = faults + 1
            /\ UNCHANGED <<running, proc>>
  /\ UNCHANGED <<Store, calls, winSum, winDirty, fails, crossed>>

\* stop(): self.running = False; await self.risk_engine.disconnect()
StopSignal ==
  /\ sched.caller = "idle"
  /\ running' = FALSE
  /\ sched' = [sched EXCEPT !.caller = "closing",
                            !.loop = [p \in Procs |->
                                       [@[p] EXCEPT !.stopped = @ \/ sched.loop[p].live]]]
  /\ UNCHANGED <<Store, proc, calls, winSum, winDirty, fails, crossed, faults>>

\* disconnect() returned (or raised): stop() is over
StopClosed ==
  /\ sched.caller = "closing"
  /\ sched' = [sched EXCEPT !.caller = "idle"]
  /\ UNCHANGED <<Store, proc, calls, winSum, winDirty, fails, crossed, faults, running>>

\* `while self.running:` as the loop task tests it, first and after each sleep
LoopGoesOn(isRunning) == isRunning

\* The task is scheduled for the first time, or asyncio.sleep(60) returned: the
\* test, and then either _analyze_and_prune up to its first store call or the end.
LoopWake(p) ==
  /\ sched.loop[p].live
  /\ proc[p].op = "loop" /\ proc[p].pc \in {"new", "sleep"}
  /\ IF LoopGoesOn(running)
     THEN /\ proc' = [proc EXCEPT ![p] = [Idle EXCEPT !.op = "cycle", !.pc = "S1"]]
          /\ UNCHANGED sched
     ELSE /\ proc' = [proc EXCEPT ![p] = LoopFrame("exit")]
          /\ sched' = [sched EXCEPT !.loop[p].live = FALSE]
  /\ UNCHANGED <<Store, calls, winSum, winDirty, fails, crossed, faults, running>>

\* try: await self._analyze_and_prune() / except Exception: print(...): where the
\* loop goes after a cycle that returned ("done") or raised ("raised")
AfterCycleUncaught(pc) == IF pc = "raised" THEN "exit" ELSE "sleep"
AfterCycle(pc) == "sleep"

\* The cycle is over, one way or the other: await asyncio.sleep(60)
LoopSleep(p) ==
  /\ sched.loop[p].live
  /\ proc[p].op = "cycle" /\ proc[p].pc \in {"done", "raised"}
  /\ LET to == AfterCycle(proc[p].pc)
     IN /\ proc' = [proc EXCEPT ![p] = LoopFrame(to)]
        /\ sched' = [sched EXCEPT !.loop[p].failed = @ \/ proc[p].pc = "raised",
                                  !.loop[p].live = to # "exit"]
  /\ UNCHANGED <<Store, calls, winSum, winDirty, fails, crossed, faults, running>>

\* ------------------------------------------------------- is_ip_blocked
\* reason = await self.redis.get(f"shield:block:{ip}"); if reason:
DirectlyBlockedByScore(ip) == RiskRead(ip) >= BLOCK_THRESHOLD
DirectlyBlocked(ip) == block[ip].e


\* LAYER 1: reason = await self.redis.get(f"shield:block:{ip}"); if reason: return True, ...
DirectBlockCheck(p) ==
  /\ proc[p].pc = "L1"
  /\ \E ok \in StoreOutcomes :
       IF ok
       THEN LET f == [proc[p] EXCEPT !.l1 = "ok"]
            IN Goes(p, IF DirectlyBlocked(f.ip) THEN Deny(f, "L1") ELSE [f EXCEPT !.pc = "L2a"])
       ELSE Fail(p)
  /\ UNCHANGED <<Store, calls>>

\* LAYER 2: geo_settings_raw = await self.redis.get("geo:settings")
GeoSettingsGet(p, D) ==
  /\ proc[p].pc = "L2a"
  /\ \E ok \in StoreOutcomes :
       IF ok
       THEN \E doc \in D :
              LET f == Enter(proc[p], "L2")
              IN Goes(p, IF doc.k = "bad" THEN Failed2(f)
                         ELSE IF doc.k = "json" /\ doc.geo_blocking_enabled = "true"
                              THEN [f EXCEPT !.pc = "L2b"] ELSE ToLayer3(f))
       ELSE Fail(p)
  /\ UNCHANGED <<Store, calls>>

\* blocked_countries_raw = await self.redis.get("geo:blocked_countries")
BlockedCountriesGet(p) ==
  /\ proc[p].pc = "L2b"
  /\ \E ok \in StoreOutcomes :
       IF ok
       THEN \E doc \in BlockedDocs :
              Goes(p, IF doc.k = "bad" THEN Failed2(proc[p])
                      ELSE IF doc.k = "json" /\ doc.list # <<>>
                           THEN [proc[p] EXCEPT !.pc = "G1", !.bl = doc.list]
                           ELSE ToLayer3(proc[p]))
       ELSE Fail(p)
  /\ UNCHANGED <<Store, calls>>

\* LAYER 3: sec_settings_raw = await self.redis.get("security:settings"); 3a up to its await
\* N: the identity's biometric attempt count while the policy is evaluated (read in 3c)
SecSettingsGet(p, D, N) ==
  /\ proc[p].pc = "L3"
  /\ \E ok \in StoreOutcomes :
       IF ok
       THEN \E doc \in D, tok \in BOOLEAN :    \* tok: request.headers.get("x-attestation-token")
            \E n \in IF doc.k = "json" THEN N ELSE {0} :
              LET e == Enter(proc[p], "L3")
                  f == [e EXCEPT !.sec = doc, !.pol = doc, !.bio = n,
                                 !.notok = doc.k = "json" /\ doc.att = "true" /\ ~tok]
              IN Goes(p, IF doc.k = "bad" THEN Failed3(e)
                         ELSE IF doc.k # "json" THEN ToLayer4(e)
                         ELSE IF doc.att = "true" /\ ~tok
                              THEN CallIncrement(f, ATTEST_WEIGHT, "L3a")
                              ELSE After3a(f))
       ELSE Fail(p)
  /\ UNCHANGED <<Store, calls>>

\* 3a: reason = await self.redis.get(f"shield:block:{ip}"); if reason: return True, ...
AttestationRecheck(p) ==
  /\ proc[p].pc = "L3r"
  /\ \E ok \in StoreOutcomes :
       IF ok
       THEN LET f == [proc[p] EXCEPT !.reread = IF block[proc[p].ip].e THEN "blocked" ELSE "clear"]
            IN Goes(p, IF DirectlyBlocked(f.ip) THEN Deny(f, "L3a") ELSE After3a(f))
       ELSE Fail(p)
  /\ UNCHANGED <<Store, calls>>

\* 3c: bio_count = await self.redis.zcard(f"rl:biometric:ip:{ip}")
BiometricCount(p) ==
  /\ proc[p].pc = "L3c"
  /\ \E ok \in StoreOutcomes :
       IF ok
       THEN LET n == proc[p].bio
            IN Goes(p, IF n # 0 /\ n >= MaxBio(proc[p].sec)
                       THEN CallIncrement(proc[p], n, "L3c") ELSE ToLayer4(proc[p]))
       ELSE Fail(p)
  /\ UNCHANGED <<Store, calls>>

\* LAYER 4: count = await self.redis.zcard("rl:login:ip:{ip}")
LoginCount(p, N) ==
  /\ proc[p].pc = "L4a"
  /\ \E ok \in StoreOutcomes :
       IF ok
       THEN \E n \in N :
              LET f == Enter(proc[p], "L4")
              IN Goes(p, IF n # 0 /\ n >= RATE_LIMIT_CAP
                         THEN CallIncrement(f, n, "L4") ELSE [f EXCEPT !.pc = "L4b"])
       ELSE Fail(p)
  /\ UNCHANGED <<Store, calls>>

\* count = await self.redis.zcard("rl:enrollment:ip:{ip}"); return False, ""
EnrollmentCount(p, N) ==
  /\ proc[p].pc = "L4b"
  /\ \E ok \in StoreOutcomes :
       IF ok
       THEN \E n \in N :
              Goes(p, IF n # 0 /\ n >= RATE_LIMIT_CAP
                      THEN CallIncrement(proc[p], n, "L4") ELSE Allow(proc[p]))
       ELSE Fail(p)
  /\ UNCHANGED <<Store, calls>>

\* ----------------------------------------------------- shield_middleware
\* any(request.url.path.startswith(p) for p in ADMIN_PATHS)
IsAdminPathExact(path) == path \in ADMIN_PATHS
IsAdminPath(path) == \E pre \in ADMIN_PATHS : StartsWith(path, pre)

\* A request arrives; the admin test runs before the first await.
StartRequest(p, S, PS, bound) ==
  /\ proc[p].pc \in Rest
  /\ calls < bound
  /\ \E ip \in S, path \in PS :
       Goes(p, [Idle EXCEPT !.op = "req", !.ip = ip, !.path = path,
                            !.saw = crossed[ip],
                            !.pc = IF IsAdminPath(path) THEN "A1" ELSE "L1"])
  /\ calls' = calls + 1
  /\ UNCHANGED Store

\* response = await call_next(request); response.headers["X-Shield-Bypass"] = "admin"
AdminForward(p) ==
  /\ proc[p].pc = "A1"
  /\ \E st \in BackendStatus :
       Goes(p, Finish([proc[p] EXCEPT !.fwd = TRUE], "bypass", st, {"X-Shield-Bypass"}))
  /\ UNCHANGED <<Store, calls>>

\* response = await call_next(request), then the post-processing up to its await
Forward(p, ST) ==
  /\ proc[p].pc = "M1"
  /\ \E st \in ST :
       LET f == [proc[p] EXCEPT !.fwd = TRUE, !.code = st]
       IN Goes(p, IF st = 429 \/ (StartsWith(f.path, AUTH_PREFIX) /\ st = 401)
                  THEN CallIncrement(f, AUTH_FAIL_WEIGHT, "mw")
                  ELSE Finish(f, "fwd", st, {"X-Shield-Latency"}))
  /\ UNCHANGED <<Store, calls>>

\* ------------------------------------------------------------- key expiry
\* shield:risk:{ip} reaches its TTL: a new window starts.
ExpireRisk(ip) ==
  /\ risk[ip].e /\ risk[ip].t
  /\ risk' = [risk EXCEPT ![ip] = NoRisk]
  /\ winSum' = [winSum EXCEPT ![ip] = 0]
  /\ winDirty' = [winDirty EXCEPT ![ip] = \E q \in Procs : InIncrement(q, ip)]
  /\ UNCHANGED <<logs, block, blockCount, geoCache, vpnCache, proc, calls, fails, crossed, faults, lastGeo, lastVpn, Manager>>

\* shield:block:{ip} reaches its TTL.
ExpireBlock(ip) ==
  /\ block[ip].e
  /\ block' = [block EXCEPT ![ip] = NoBlock]
  /\ proc' = [q \in Procs |->
               [proc[q] EXCEPT !.ovl = @ \/ InBlock(q),
                               !.expd = @ \/ InIncrement(q, ip),
                               !.saw = @ /\ proc[q].ip # ip]]
  /\ crossed' = [crossed EXCEPT ![ip] = FALSE]
  /\ UNCHANGED <<risk, logs, blockCount, geoCache, vpnCache, calls, winSum, winDirty, fails, faults, lastGeo, lastVpn, Manager>>

\* geo:ip:{ip} reaches its TTL.
ExpireGeo(ip) ==
  /\ geoCache[ip].e
  /\ geoCache' = [geoCache EXCEPT ![ip] = NoGeo]
  /\ lastGeo' = [lastGeo EXCEPT ![ip] = NoRes]
  /\ UNCHANGED <<Others, vpnCache, proc, History, lastVpn>>

\* shield:vpn:{ip} reaches its TTL.
ExpireVpn(ip) ==
  /\ vpnCache[ip].e
  /\ vpnCache' = [vpnCache EXCEPT ![ip] = NoVpn]
  /\ lastVpn' = [lastVpn EXCEPT ![ip] = NoRes]
  /\ UNCHANGED <<Others, geoCache, proc, History, lastGeo>>

\* ---------------------------------------------------------- specifications
Init ==
  /\ risk = [ip \in IPs |-> NoRisk]
  /\ logs = [ip \in IPs |-> <<>>]
  /\ block = [ip \in IPs |-> NoBlock]
  /\ blockCount = 0
  /\ geoCache = [ip \in IPs |-> NoGeo]
  /\ vpnCache = [ip \in IPs |-> NoVpn]
  /\ proc = [p \in Procs |-> Idle]
  /\ calls = 0
  /\ faults = 0
  /\ winSum = [ip \in IPs |-> 0]
  /\ winDirty = [ip \in IPs |-> FALSE]
  /\ fails = [ip \in IPs |-> 0]
  /\ crossed = [ip \in IPs |-> FALSE]
  /\ lastGeo = [ip \in IPs |-> NoRes]
  /\ lastVpn = [ip \in IPs |-> NoRes]
  /\ NotStarted

\* The store after n requests of identity ip that each ended in an authentication
\* failure, one after the other, with no expiry (reached in SpecAuthFail).
AuthFailLog(n) == [i \in 1..n |-> [amount |-> AUTH_FAIL_WEIGHT,
                                   total_score |-> AUTH_FAIL_WEIGHT * (n + 1 - i)]]
AfterAuthFails(ip, n) ==
  LET total == AUTH_FAIL_WEIGHT * n
      hit == total >= BLOCK_THRESHOLD
  IN /\ risk = [i \in IPs |-> IF i = ip /\ n > 0 THEN [e |-> TRUE, v |-> total, t |-> TRUE] ELSE NoRisk]
     /\ logs = [i \in IPs |-> IF i = ip THEN AuthFailLog(n) ELSE <<>>]
     /\ block = [i \in IPs |-> IF i = ip /\ hit THEN [e |-> TRUE, score |-> total] ELSE NoBlock]
     /\ blockCount = (IF hit THEN 1 ELSE 0)
     /\ geoCache = [i \in IPs |-> NoGeo]
     /\ vpnCache = [i \in IPs |-> NoVpn]
     /\ winSum = [i \in IPs |-> IF i = ip THEN total ELSE 0]
     /\ winDirty = [i \in IPs |-> FALSE]
     /\ fails = [i \in IPs |-> IF i = ip THEN n ELSE 0]
     /\ crossed = [i \in IPs |-> i = ip /\ hit]
     /\ lastGeo = [i \in IPs |-> NoRes]
     /\ lastVpn = [i \in IPs |-> NoRes]

AtRest ==
  /\ proc = [p \in Procs |-> Idle]
  /\ calls = 0
  /\ faults = 0
  /\ NotStarted

\* the number of authentication failures that reaches the threshold
ToThreshold == BLOCK_THRESHOLD \div AUTH_FAIL_WEIGHT

InitGate ==
  /\ AtRest
  /\ \E n \in {0, ToThreshold} : AfterAuthFails("1.2.3.4", n)

InitRepeat ==
  /\ AtRest
  /\ AfterAuthFails("1.2.3.4", ToThreshold - 1)

EngineStep(p) ==
  \/ IncrBy(p) \/ Expire(p) \/ LPush(p) \/ LTrim(p)
  \/ BlockExists(p) \/ BlockSetex(p) \/ BlockIncr(p) \/ BlockReturn(p)

OneIP == {"1.2.3.4"}
GateProcs == {1}

NextEngine ==
  \/ \E p \in Procs : StartIncrement(p, OneIP) \/ EngineStep(p)
  \/ \E ip \in IPs : ExpireRisk(ip) \/ ExpireBlock(ip)

\* The risk engine: concurrent IncrementRisk calls for one identity.
SpecEngine == Init /\ [][NextEngine]_vars

BlockStep(p) == BlockExists(p) \/ BlockSetex(p) \/ BlockIncr(p) \/ BlockReturn(p)

NextBlock ==
  \/ \E p \in Procs : StartBlock(p, IPs) \/ BlockStep(p)
  \/ \E ip \in IPs : ExpireBlock(ip)

\* The risk engine: concurrent Block calls for two identities.
SpecBlock == Init /\ [][NextBlock]_vars

IsBlockedStep(p) ==
  \/ DirectBlockCheck(p) \/ GeoSettingsGet(p, GeoSettingsDocs) \/ BlockedCountriesGet(p)
  \/ GeoCacheGet(p) \/ GeoLookup(p) \/ GeoCacheSet(p)
  \/ SecSettingsGet(p, GateSecDocs, GateBioCounts) \/ AttestationRecheck(p)
  \/ VpnCacheGet(p) \/ VpnLookup(p, GateVpnAnswers) \/ VpnCacheSet(p)
  \/ BiometricCount(p) \/ LoginCount(p, RateCounts) \/ EnrollmentCount(p, RateCounts)

Next ==
  \/ \E p \in GateProcs : StartRequest(p, OneIP, Paths, Cardinality(GateProcs))
                          \/ AdminForward(p) \/ Forward(p, BackendStatus)
                          \/ IsBlockedStep(p) \/ EngineStep(p)
  \/ \E ip \in IPs : ExpireRisk(ip) \/ ExpireBlock(ip)

\* The gateway: one request through shield_middleware, with every policy document,
\* counter and reputation answer, on a store that is empty or that earlier
\* authentication failures left with the identity blocked.
Spec == InitGate /\ [][Next]_vars

\* is_ip_blocked while no policy document is set and no rate limit is hit
PlainStep(p) ==
  \/ DirectBlockCheck(p) \/ GeoSettingsGet(p, NoGeoSettings) \/ SecSettingsGet(p, {NoSec}, {0})
  \/ LoginCount(p, {0}) \/ EnrollmentCount(p, {0})

NextRepeat ==
  \/ \E p \in Procs : StartRequest(p, OneIP, {AuthLogin, AdminBare}, RepeatReqs)
                      \/ Forward(p, {200, 401})
                      \/ PlainStep(p) \/ EngineStep(p)
  \/ \E ip \in IPs : ExpireRisk(ip) \/ ExpireBlock(ip)

\* Repeated and concurrent requests of one identity, no policy document set.
SpecRepeat == InitRepeat /\ [][NextRepeat]_vars

NextAuthFail ==
  \/ \E p \in GateProcs : StartRequest(p, OneIP, {AuthLogin, AdminBare}, AuthReqs)
                          \/ Forward(p, {200, 401}) \/ PlainStep(p) \/ EngineStep(p)

\* One client, one request after the other inside one TTL window, answered by the
\* backend with 200 or 401.
SpecAuthFail == Init /\ [][NextAuthFail]_vars

NextCache ==
  \/ \E p \in Procs : StartGeo(p, OneIP) \/ GeoCacheGet(p) \/ GeoLookup(p) \/ GeoCacheSet(p)
                      \/ StartVpn(p, OneIP) \/ VpnCacheGet(p) \/ VpnLookup(p, VpnAnswers)
                      \/ VpnCacheSet(p)
  \/ \E ip \in IPs : ExpireGeo(ip) \/ ExpireVpn(ip)

\* The cached lookups called directly by concurrent tasks.
SpecCache == Init /\ [][NextCache]_vars

\* The store with the identities of S blocked, each by a Block call of its own.
BlockedStore(S) ==
  /\ risk = [i \in IPs |-> NoRisk]
  /\ logs = [i \in IPs |-> <<>>]
  /\ block = [i \in IPs |-> IF i \in S THEN [e |-> TRUE, score |-> BLOCK_THRESHOLD] ELSE NoBlock]
  /\ blockCount = Cardinality(S)
  /\ geoCache = [i \in IPs |-> NoGeo]
  /\ vpnCache = [i \in IPs |-> NoVpn]
  /\ winSum = [i \in IPs |-> 0]
  /\ winDirty = [i \in IPs |-> FALSE]
  /\ fails = [i \in IPs |-> 0]
  /\ crossed = [i \in IPs |-> FALSE]
  /\ lastGeo = [i \in IPs |-> NoRes]
  /\ lastVpn = [i \in IPs |-> NoRes]

\* The records that change while the cycles run: one is blocked anew and lapses,
\* one lapses; the others were set a moment ago.
Reblocked == {"10.0.5.7"}
Lapsing   == {"10.0.5.7", "1.2.3.4"}

InitSched == AtRest /\ \E S \in {IPs, IPs \ Reblocked} : BlockedStore(S)

CycleStep(p) == BlockedKeys(p) \/ BlockedReason(p) \/ BlockedTtl(p)

NextSched ==
  \/ \E p \in GateProcs : StartCycle(p) \/ CycleStep(p)
  \/ \E p \in Procs \ GateProcs : StartBlock(p, Reblocked) \/ BlockStep(p)
  \/ \E ip \in Lapsing : ExpireBlock(ip)

\* The heuristic scheduler's cycles, with Block calls and block expiries going on.
SpecSched == InitSched /\ [][NextSched]_vars

InitLoop == AtRest /\ BlockedStore(OneIP)

LoopStep(p) == LoopWake(p) \/ CycleStep(p) \/ LoopSleep(p)

NextLoop ==
  \/ StartCall \/ StartRun \/ StopSignal \/ StopClosed
  \/ \E p \in Procs : LoopStep(p)
  \/ \E ip \in OneIP : ExpireBlock(ip)

\* The heuristic scheduler: start and stop called one after the other, the loop
\* tasks they leave, and a block expiring meanwhile.
SpecLoop == InitLoop /\ [][NextLoop]_vars

\* The event loop runs every task that can run, timers fire and store calls end.
LoopFairness == \A p \in Procs : WF_vars(LoopStep(p))
SpecLoopLive == SpecLoop /\ LoopFairness

\* The audit log of an identity that failed one authentication in each of n windows.
OldLog(n) == [i \in 1..n |-> [amount |-> AUTH_FAIL_WEIGHT, total_score |-> AUTH_FAIL_WEIGHT]]

\* Scores and records have expired, the audit log (it has no TTL) is full.
InitLog ==
  /\ AtRest
  /\ \E ip \in OneIP : logs = [i \in IPs |-> IF i = ip THEN OldLog(LogCap) ELSE <<>>]
  /\ risk = [i \in IPs |-> NoRisk]
  /\ block = [i \in IPs |-> NoBlock]
  /\ blockCount = 0
  /\ geoCache = [i \in IPs |-> NoGeo]
  /\ vpnCache = [i \in IPs |-> NoVpn]
  /\ winSum = [i \in IPs |-> 0]
  /\ winDirty = [i \in IPs |-> FALSE]
  /\ fails = [i \in IPs |-> IF i \in OneIP THEN LogCap ELSE 0]
  /\ crossed = [i \in IPs |-> FALSE]
  /\ lastGeo = [i \in IPs |-> NoRes]
  /\ lastVpn = [i \in IPs |-> NoRes]

\* The risk engine: concurrent IncrementRisk calls of an identity whose log is full.
SpecLog == InitLog /\ [][NextEngine]_vars

NextRace == \E p \in Procs : StartBlock(p, OneIP) \/ BlockStep(p)

\* The risk engine: Block calls for one identity inside the TTL of its record.
SpecRace == Init /\ [][NextRace]_vars

Quiet(ip) == \A q \in Procs : ~InIncrement(q, ip)

\* C1: inside one TTL window of an identity's score, once every IncrementRisk
\* call begun in the window has completed, the stored score is the sum of the
\* calls' amounts (no update is lost); after the key expired and before any
\* new call the score reads as zero.
C1_NoLostUpdate ==
  \A ip \in IPs : (Quiet(ip) /\ ~winDirty[ip]) => RiskRead(ip) = winSum[ip]

C1_Witness ==
  \E ip \in IPs : /\ Quiet(ip) /\ ~winDirty[ip] /\ RiskRead(ip) = 100 /\ winSum[ip] = 100
                  /\ \A q \in Procs : proc[q].op = "inc" /\ proc[q].ip = ip /\ proc[q].pc = "done"

\* C4: a Block call that no other Block call and no block expiry overlaps
\* leaves the block counter one higher when the identity had no BlockRecord
\* at the call, and unchanged when it had one.
C4_CounterOnTransition ==
  \A p \in Procs : (proc[p].pc = "B4" /\ ~proc[p].ovl) =>
      blockCount = proc[p].c0 + (IF proc[p].e0 THEN 0 ELSE 1)

C4_Witness ==
  \E p \in Procs : /\ proc[p].pc = "B4" /\ ~proc[p].ovl /\ proc[p].e0 /\ proc[p].c0 = 1
                   /\ blockCount = 1

DenyLayers == {"L1", "L2", "L3a", "L3b", "L3c", "L4"}

\* C2: once an IncrementRisk call that brought the score to the threshold has
\* completed, every IsBlocked call that reads the store returns (true, reason)
\* at layer 1 until the BlockRecord expires, whatever became of the score.
C2_BlockedUntilExpiry ==
  \A p \in Procs : (proc[p].op = "req" /\ proc[p].saw /\ proc[p].l1 = "ok") =>
      proc[p].res = "L1" /\ proc[p].out = "denied"

C2_Witness ==
  \E p \in Procs : /\ proc[p].op = "req" /\ proc[p].saw /\ proc[p].res = "L1"
                   /\ RiskRead(proc[p].ip) = 0 /\ block[proc[p].ip].e

\* C3: the layers are evaluated in order and the first denial returns: a request
\* denied by layer 2 passed layer 1, and changed neither score, log, BlockRecord
\* and block counter nor the VPN cache, and was not forwarded.
C3_GeoDenyStopsEvaluation ==
  \A p \in Procs : (proc[p].op = "req" /\ proc[p].res = "L2") =>
      /\ proc[p].l1 = "ok" /\ proc[p].out = "denied"
      /\ ~proc[p].touched /\ ~proc[p].vpnw /\ ~proc[p].fwd

C3_Witness ==
  \E p \in Procs : /\ proc[p].op = "req" /\ proc[p].res = "L2" /\ proc[p].pc = "done"
                   /\ proc[p].l1 = "ok" /\ ~block[proc[p].ip].e /\ ~vpnCache[proc[p].ip].e

\* C5: a request on an admin-prefixed path is forwarded and tagged as bypass,
\* IsBlocked is not evaluated for it and it changes no risk state, even when
\* its identity has a BlockRecord and whatever the backend answers.
C5_AdminBypass ==
  \A p \in Procs : (proc[p].op = "req" /\ proc[p].path = AdminUsers) =>
      /\ proc[p].res = "none" /\ proc[p].l1 = "none" /\ ~proc[p].touched /\ ~proc[p].vpnw
      /\ proc[p].pc = "done" => /\ proc[p].fwd /\ proc[p].out = "bypass"
                                /\ proc[p].code \in BackendStatus
                                /\ "X-Shield-Bypass" \in proc[p].hdrs

C5_Witness ==
  \E p \in Procs : /\ proc[p].op = "req" /\ proc[p].path = AdminUsers /\ proc[p].pc = "done"
                   /\ block[proc[p].ip].e /\ proc[p].fwd /\ proc[p].code = 401

\* C7: a request IsBlocked denies is answered with 403, the reason and the
\* denial marker, and never reaches the backend; the backend is contacted only
\* for requests that were allowed or bypassed as admin.
C7_DenyNeverForwards ==
  \A p \in Procs : proc[p].op = "req" =>
      /\ proc[p].res \in DenyLayers =>
           /\ proc[p].pc = "done" /\ proc[p].out = "denied" /\ proc[p].code = 403
           /\ "X-Shield-Blocked" \in proc[p].hdrs /\ ~proc[p].fwd
      /\ proc[p].out = "denied" => proc[p].res \in DenyLayers
      /\ proc[p].fwd => proc[p].res = "allow" \/ proc[p].path = AdminUsers

C7_Witness ==
  \E p \in Procs : /\ proc[p].op = "req" /\ proc[p].res = "L3b" /\ proc[p].out = "denied"
                   /\ proc[p].code = 403 /\ ~proc[p].fwd

\* C8: when IncrementRisk fails with a store error in the post-processing of an
\* allowed request, the caller still gets the backend's response.
C8_ScoringErrorKeepsResponse ==
  \A p \in Procs : (proc[p].op = "req" /\ proc[p].pc = "done" /\ proc[p].res = "allow"
                    /\ proc[p].fwd) =>
      proc[p].out = "fwd" /\ proc[p].code \in BackendStatus

\* C9: when the layer-1 read of the BlockRecord fails, IsBlocked neither raises
\* nor reports a block: the request is forwarded unless a later layer denies it.
C9_DirectReadInconclusive ==
  \A p \in Procs : (proc[p].op = "req" /\ proc[p].pc = "done" /\ proc[p].l1 = "failed") =>
      /\ proc[p].out \in {"fwd", "denied"}
      /\ proc[p].res # "L1"

C10_CacheRoundTrip ==
  \A p \in Procs : (proc[p].op \in {"geo", "vpn"} /\ proc[p].pc = "done") =>
      IF proc[p].seen.set THEN proc[p].rv = proc[p].seen.v /\ proc[p].ext = 0
                          ELSE proc[p].ext = 1

C10_Witness ==
  \E p \in Procs : /\ proc[p].op = "geo" /\ proc[p].pc = "done" /\ proc[p].seen.set
                   /\ proc[p].rv = proc[p].seen.v /\ proc[p].rv # <<"none">>
                   /\ proc[p].ext = 0

\* C11: a direct ResolveCountry or CheckVPN call whose external lookup failed
\* (it raised, or answered without success) returns the empty or negative result
\* and writes no cache entry; no cache entry ever holds a failed lookup, so a
\* later call finds no entry for it and asks the reputation service again.
C11_FailureNotCached ==
  /\ \A ip \in IPs : /\ geoCache[ip].e => geoCache[ip].country_code # "none"
                     /\ vpnCache[ip].e => vpnCache[ip].reason # <<>>
  /\ \A p \in Procs : (proc[p].op \in {"geo", "vpn"} /\ proc[p].lk = "failed") =>
       /\ proc[p].pc = "done" /\ ~proc[p].cw /\ proc[p].ext = 1
       /\ proc[p].rv = IF proc[p].op = "geo" THEN <<"none">> ELSE <<FALSE, <<>>>>

C11_Witness ==
  \E p \in Procs, q \in Procs :
     /\ p # q /\ proc[p].ip = proc[q].ip /\ ~vpnCache[proc[p].ip].e
     /\ proc[p].op = "vpn" /\ proc[p].pc = "done" /\ proc[p].lk = "failed" /\ ~proc[p].seen.set
     /\ proc[q].op = "vpn" /\ proc[q].pc = "done" /\ proc[q].lk = "failed" /\ ~proc[q].seen.set
     /\ proc[q].ext = 1

\* The /24 network of an IPv4 identity: its first three octets.
Net24(ip) ==
  CASE ip \in {"10.0.5.7", "10.0.5.8", "10.0.5.9"} -> <<"10", "0", "5", "0/24">>
    [] ip = "1.2.3.4" -> <<"1", "2", "3", "0/24">>
    [] OTHER -> <<>>

Times(seq, x) == Cardinality({i \in 1..Len(seq) : seq[i] = x})

C13_LatencyOnEveryResponse ==
  \A p \in Procs : (proc[p].op = "req" /\ proc[p].pc = "done"
                    /\ proc[p].out \in {"fwd", "denied", "bypass"}) =>
      "X-Shield-Latency" \in proc[p].hdrs

\* C14: the audit log of an identity never keeps more than 50 entries.
C14_LogNeverOverCap ==
  \A ip \in IPs : Len(logs[ip]) <= 50

\* C15: once k >= 2 Block calls for an identity that had no BlockRecord have
\* made their store calls, concurrently or not, the block counter has grown by
\* at least 1 and at most k, and the identity has its BlockRecord.
C15_BoundedSkew ==
  (/\ calls >= 2 /\ faults = 0
   /\ \A p \in Procs : proc[p].pc \in Rest \cup {"B4"}) =>
      /\ blockCount >= 1 /\ blockCount <= calls
      /\ \A ip \in OneIP : block[ip].e
      /\ \A ip \in IPs \ OneIP : ~block[ip].e

C15_Witness ==
  /\ calls = 2 /\ faults = 0 /\ blockCount = 2
  /\ \A p \in Procs : proc[p].op = "blk" /\ proc[p].pc = "done"
  /\ \A ip \in OneIP : block[ip].e

\* C16: in every state the block counter is at least the number of identities
\* that have a BlockRecord.
C16_CounterCoversBlocked ==
  blockCount >= Cardinality({ip \in IPs : block[ip].e})

ScoredAt(f, where) == {i \in 1..Len(f.scored) : f.scored[i][1] = where}

\* C17: with attestation required and the token missing, sub-check 3a scores
\* one increment of 20 and then re-reads the BlockRecord; it denies exactly when
\* the re-read finds a record, and otherwise the evaluation goes on to 3b, 3c
\* and layer 4. Without a missing token 3a scores nothing.
C17_AttestationScoresThenRereads ==
  \A p \in Procs : proc[p].op = "req" =>
      /\ proc[p].reread # "none" =>
           /\ proc[p].notok
           /\ proc[p].scored # <<>> /\ proc[p].scored[1] = <<"L3a", 20>>
      /\ Cardinality(ScoredAt(proc[p], "L3a")) <= 1
      /\ ~proc[p].notok => ScoredAt(proc[p], "L3a") = {}
      /\ proc[p].res = "L3a" <=> proc[p].reread = "blocked"
      /\ proc[p].res = "L3a" => proc[p].scored = << <<"L3a", 20>> >>
      /\ (proc[p].reread = "clear" /\ proc[p].pc = "done") =>
           \/ proc[p].res \in {"L3b", "L3c", "L4", "allow"}
           \/ proc[p].out = "err500" /\ "L4" \in proc[p].ev

C17_Witness ==
  \E p \in Procs : /\ proc[p].op = "req" /\ proc[p].notok /\ proc[p].res = "L3a"
                   /\ proc[p].reread = "blocked" /\ proc[p].scored = << <<"L3a", 20>> >>
                   /\ proc[p].out = "denied" /\ RiskRead(proc[p].ip) = 120

\* C18: whenever the security policy is present and the identity's biometric
\* attempt count meets the per-IP cap, the request is denied, whatever happened
\* in the attestation and VPN sub-checks.
C18_BiometricCapAlwaysDenies ==
  \A p \in Procs : (/\ proc[p].op = "req" /\ proc[p].pc = "done"
                    /\ proc[p].pol.k = "json" /\ proc[p].pol.maxbio # "bad"
                    /\ proc[p].bio >= MaxBio(proc[p].pol)) =>
      proc[p].out = "denied"

\* C19: layer 4 denies, and scores, only for a rate-limit counter that exceeds 50.
C19_LayerFourAboveFifty ==
  \A p \in Procs : (proc[p].op = "req" /\ proc[p].res = "L4") =>
      \A i \in ScoredAt(proc[p], "L4") : proc[p].scored[i][2] > 50

C24_ScoreAlwaysExpires ==
  \A ip \in IPs : risk[ip].e => risk[ip].t

\* C25: every entry of the result GetAllBlocked returned has a reason (the key
\* was there when it was read) and a remaining TTL that is not negative.
C25_EntriesWereActive ==
  \A p \in Procs : (proc[p].op = "cycle" /\ proc[p].pc = "done") =>
      \A ip \in DOMAIN proc[p].blocked :
          /\ proc[p].blocked[ip].reason.e
          /\ proc[p].blocked[ip].expires_in_sec >= 0

CycleOver(p) ==
  sched.loop[p].live /\ proc[p].op = "cycle" /\ proc[p].pc \in {"done", "raised"}

\* C21: a scheduler cycle that failed does not end the loop: after every cycle
\* of a loop, returned or raised, the loop starts a further cycle, unless the
\* scheduler is stopped first; and only the stop flag ends a loop.
C21_NextCycleFollows ==
  /\ \A p \in Procs : CycleOver(p) ~> (proc[p].pc = "S1" \/ ~running)
  /\ [][\A p \in Procs : (sched.loop[p].live /\ ~sched'.loop[p].live) => ~running]_vars

C21_Witness ==
  \E p \in Procs : /\ sched.loop[p].live /\ sched.loop[p].failed /\ ~sched.loop[p].stopped
                   /\ proc[p].op = "cycle" /\ proc[p].pc = "S1" /\ running

\* C22: a loop that was running when stop was signaled starts no scan cycle
\* after that signal.
C22_NoCycleAfterStop ==
  [][\A p \in Procs : (sched.loop[p].stopped /\ proc[p].op = "loop")
                        => proc'[p].op # "cycle"]_vars

\* C23: at most one scan loop is active at any time.
C23_OneLoopAtATime == Cardinality(LiveLoops) <= 1
====
